---- MODULE Spec2Model ----
(***************************************************************************)
(* The by-hand cross validation and hyperparameter search of               *)
(* lect10-examples/cross-validation.ipynb, the single-loop parameter sweep *)
(* of lect07-examples/CART_regression.ipynb and the cross validation cell  *)
(* of lect09-examples/eda_demo.ipynb, as one state machine.                *)
(* A run executes the cells of one notebook top to bottom; an uncaught     *)
(* exception stops the run (pc = "error").                                 *)
(*                                                                         *)
(* Python containers keep their 0-based indexing where they are arrays     *)
(* (fold, X, y are functions on 0..N-1) and are sequences where they are   *)
(* lists that grow by append (perf, neighbourhood_perf, split_loss).       *)
(* The learning algorithms and the bit generator are library code: a model *)
(* score is an oracle value fixed per (model, fold parity), the generator  *)
(* is a small full-period congruential generator.                          *)
(***************************************************************************)
EXTENDS Integers, Sequences, FiniteSets, TLC

\* ------------------------------------------------------------------ bounds
MaxN == 4        \* dataset sizes 1..MaxN (plus the N_FOLDS-row dataset)
MaxK == 4        \* fold counts -1..MaxK (plus the divisors of N_FOLDS)
MaxCand == 3     \* candidate lists are the prefixes of length 0..MaxCand
SeedSpan == 3    \* seeds SEED..SEED+SeedSpan
MaxPoints == 4   \* n_points of the CART sweep ranges over 1..MaxPoints
MtSpan == 3      \* states 0..MtSpan of the global generator when the kernel starts

\* ------------------------------------------------------- program constants
N_FOLDS == 10
SEED == 1234
N_REPEATS == 3
N_NEIGHBORS == 3

\* the literal list of the search cell
CandidateList == << 1, 3, 5, 7, 9, 11, 31, 51, 71, 91, 101, 201 >>

\* per-fold R-squared values (in hundredths) a model can score: entry 1 on
\* the folds with an even id, entry 2 on those with an odd id
ScorePairs == { <<70, 75>>, <<80, 85>>, <<80, 80>>, <<85, 80>> }

\* mean squared errors (in hundredths) of the sweep
LossVals == { 10, 20, 30 }

\* accuracies a classifier of a sweep can reach: correct predictions over
\* predictions
AccVals == { << 1, 2 >>, << 2, 4 >>, << 3, 4 >> }

\* the key of LinearRegression() in the score oracle (the kNN keys are the
\* neighbourhood sizes, all positive)
LM == 0

\* ----------------------------------------------------------------- helpers
PyRange(n) == 0 .. (n - 1)

\* Python's a % n for a >= 0: the result takes the sign of the divisor
PyMod(a, n) == IF n > 0 THEN a % n ELSE 0 - ((0 - a) % (0 - n))

\* labels handed out in contiguous blocks instead of round robin
BlockFold(n, nf) == [ r \in PyRange(n) |-> r \div (IF nf > 0 THEN nf ELSE 1) ]

\* [ i % n_folds for i in range(len(X)) ]
NaturalFold(n, nf) == [ r \in PyRange(n) |-> PyMod(r, nf) ]

\* np.random.default_rng(seed): the state of a freshly seeded generator
default_rng(s) == s % 32

\* one step of the bit generator
RngNext(s) == (5 * s + 3) % 32

\* a bounded draw in 0..hi from generator state s (the state after RngNext)
RngInterval(s, hi) == (s \div 4) % (hi + 1)

\* a swap that loses one of its two writes
SwapLost(arr, a, b) == [ arr EXCEPT ![a] = arr[b] ]

Swap(arr, a, b) == [ arr EXCEPT ![a] = arr[b], ![b] = arr[a] ]

\* Generator.shuffle: for idx in reversed(range(1, n)): j = draw(0..idx);
\* swap arr[idx], arr[j].  Returns the array and the generator state.
RECURSIVE ShuffleFrom(_, _, _)
ShuffleFrom(arr, s, idx) ==
    IF idx < 1 THEN << arr, s >>
    ELSE LET s1 == RngNext(s)
             j  == RngInterval(s1, idx)
         IN  ShuffleFrom(Swap(arr, idx, j), s1, idx - 1)

Shuffle(arr, s) == ShuffleFrom(arr, s, Cardinality(DOMAIN arr) - 1)

\* the elements of a finite set of integers in ascending order
RECURSIVE SortedSeq(_)
SortedSeq(S) ==
    IF S = {} THEN << >>
    ELSE LET m == CHOOSE x \in S : \A z \in S : x <= z
         IN  << m >> \o SortedSeq(S \ {m})

\* the rows of the later folds only
WhereGt(arr, v) == SortedSeq({ r \in DOMAIN arr : arr[r] > v })

\* the rows of fold v and of the folds before it
WhereLe(arr, v) == SortedSeq({ r \in DOMAIN arr : arr[r] <= v })

\* np.where(fold == v)[0] and np.where(fold != v)[0]
WhereEq(arr, v) == SortedSeq({ r \in DOMAIN arr : arr[r] = v })
WhereNe(arr, v) == SortedSeq({ r \in DOMAIN arr : arr[r] # v })

Range(seq) == { seq[j] : j \in 1 .. Len(seq) }

RECURSIVE SumSeq(_)
SumSeq(seq) == IF seq = << >> THEN 0 ELSE Head(seq) + SumSeq(Tail(seq))

\* an average that weighs every record by its position in the list
MeanWeighted(seq) ==
    << SumSeq([ j \in 1 .. Len(seq) |-> j * seq[j] ]), SumSeq([ j \in 1 .. Len(seq) |-> j ]) >>

\* the mean of all records but the first
MeanDropFirst(seq) ==
    IF seq = << >> THEN << 0, 0 >> ELSE << SumSeq(Tail(seq)), Len(seq) - 1 >>

\* np.mean of a list, as the fraction << sum, count >>; the mean of the empty
\* list is nan, the fraction << 0, 0 >> (numpy warns and goes on)
Mean(seq) == << SumSeq(seq), Len(seq) >>
IsNaN(a) == a[2] = 0

\* n / d rounded to the nearest integer, halves to the even one (n >= 0, d > 0)
RoundHalfEven(n, d) ==
    LET q == n \div d
        r == n % d
    IN  IF 2 * r < d THEN q
        ELSE IF 2 * r > d THEN q + 1
        ELSE IF q % 2 = 0 THEN q ELSE q + 1

\* np.round(a, 3) of a fraction of hundredths: a whole number of thousandths,
\* as the fraction << thousandths, 10 >>; nan stays nan
Round3(a) == IF IsNaN(a) THEN a ELSE << RoundHalfEven(10 * a[1], a[2]), 10 >>

\* np.std(seq) squared: the mean of the squared deviations from np.mean(seq)
\* (the deviation of x from the mean << s, c >> is (c * x - s) / c)
StdSq(seq) ==
    LET m == Mean(seq)
    IN  << SumSeq([ j \in 1 .. Len(seq) |-> (m[2] * seq[j] - m[1]) * (m[2] * seq[j] - m[1]) ]),
           m[2] * m[2] * Len(seq) >>

\* a < b and a = b on fractions; every comparison with nan is false
FracLess(a, b) == a[1] * b[2] < b[1] * a[2]
FracEq(a, b) == ~IsNaN(a) /\ ~IsNaN(b) /\ a[1] * b[2] = b[1] * a[2]

\* np.argmax: scan left to right, keep the first position of the largest
\* value, and the first nan if there is one (0-based position in a non-empty
\* list)
RECURSIVE ArgMaxScan(_, _, _)
ArgMaxScan(seq, j, best) ==
    IF j > Len(seq) THEN best - 1
    ELSE ArgMaxScan(seq, j + 1,
                    IF ~IsNaN(seq[best]) /\ (IsNaN(seq[j]) \/ FracLess(seq[best], seq[j]))
                       THEN j ELSE best)

\* the position of the smallest value where the largest is wanted
RECURSIVE ArgSmallestScan(_, _, _)
ArgSmallestScan(seq, j, best) ==
    IF j > Len(seq) THEN best - 1
    ELSE ArgSmallestScan(seq, j + 1, IF FracLess(seq[j], seq[best]) THEN j ELSE best)

ArgSmallest(seq) == ArgSmallestScan(seq, 2, 1)

\* the last position of the largest value instead of the first
RECURSIVE ArgMaxLastScan(_, _, _)
ArgMaxLastScan(seq, j, best) ==
    IF j > Len(seq) THEN best - 1
    ELSE ArgMaxLastScan(seq, j + 1, IF FracLess(seq[j], seq[best]) THEN best ELSE j)

ArgMaxLast(seq) == ArgMaxLastScan(seq, 2, 1)

ArgMax(seq) == ArgMaxScan(seq, 2, 1)

\* np.argmin on a non-empty list of integers, first position of the smallest
RECURSIVE ArgMinScan(_, _, _)
ArgMinScan(seq, j, best) ==
    IF j > Len(seq) THEN best - 1
    ELSE ArgMinScan(seq, j + 1, IF seq[j] < seq[best] THEN j ELSE best)

ArgMin(seq) == ArgMinScan(seq, 2, 1)

\* the score of the model with oracle pair p on fold f
FoldScore(p, f) == p[(f % 2) + 1]

None == "None"

\* an exception: its class and the statement that raised it
NoError == [ type |-> None, at |-> None ]

\* a predictor object: its identity, its oracle key, the rows it was fitted on
\* (<< >> while untrained)
NewModel(id, key) == [ id |-> id, key |-> key, fitted |-> << >> ]
Fit(m, rows) == [ m EXCEPT !.fitted = rows ]
NoModel == NewModel(0, 0)

\* a splitter object of the library: KFold / RepeatedKFold with its
\* parameters; random_state is << seed >>, or << >> for None
NewSplitter(ns, nr, rs) == [ n_splits |-> ns, n_repeats |-> nr, random_state |-> rs ]
NoSplitter == NewSplitter(0, 0, << >>)

\* StandardScaler(): the rows its statistics were computed from
NewScaler(id) == [ id |-> id, fitted |-> << >> ]
NoScaler == NewScaler(0)

\* ------------------------------------------------------------------- state
VARIABLES
    pc, err,                 \* position in the notebook, the uncaught exception
    cfg,                     \* the literals of the run: n_folds, seed, n_points
    X, y,                    \* the dataset of cell 1
    rng,                     \* generator state
    n_folds, fold,           \* fold count, fold label per row
    it, i,                   \* position of the range iterator, loop variable i
    perf,                    \* per-fold scores
    train_idx, test_idx,     \* np.where(fold != i), np.where(fold == i)
    mdl, nextId,             \* current predictor object, next object identity
    r2,                      \* score oracle: model key -> score pair
    cv_perf,                 \* the rounded mean printed by the cross validation cell
    candidate_neighbourhoods, scaler, neighbourhood_perf,
    enumIt, k,               \* position of enumerate(), candidate k
    Z_train, Z_test,         \* standardised partitions: rows and the scaler fit used
    best_neighbourhood, best_k, best_perf,
    all_split, split_loss, best_split,   \* the CART sweep
    fold_cv,                 \* history: the fold array of the cross validation cell
    candFold,                \* history: per candidate started, its position and the fold array then
    scaleLog,                \* history: one entry per fit of the scaler
    splitLog,                \* history: the partitions taken since the fold loop started
    fitLog,                  \* history: one entry per fit of a predictor
    rsqr, eda_out,           \* eda_demo.ipynb: the scores, the printed mean and std
    all_k, acc,              \* knn_classification.ipynb: the sweep over k
    label,                   \* the candidate named in the legend of a sweep's plot
    kf,                      \* the splitter object of the library cells
    mtrand,                  \* state of numpy's global RandomState
    lm, knn, zknn,           \* scores of the model comparison cell
    libLog,                  \* history: per cross_val_score call, the splits it used
    cmp_out                  \* the three means printed by the model comparison cell

dataVars == << cfg, X, y >>
rngVars == << rng, n_folds, fold >>
loopVars == << it, i, perf, train_idx, test_idx, splitLog >>
mdlVars == << mdl, nextId, r2, fitLog >>
hsVars == << candidate_neighbourhoods, scaler, neighbourhood_perf, enumIt, k,
             Z_train, Z_test, candFold, scaleLog >>
bestVars == << best_neighbourhood, best_k, best_perf >>
sweepVars == << all_split, split_loss, best_split >>
edaVars == << rsqr, eda_out >>
knnVars == << all_k, acc, label >>
libVars == << kf, mtrand, lm, knn, zknn, libLog, cmp_out >>
vars == << pc, err, dataVars, rngVars, loopVars, mdlVars, cv_perf, hsVars,
           bestVars, sweepVars, fold_cv, edaVars, knnVars, libVars >>

\* X[rows], y[rows]
Take(arr, rows) == [ j \in 1 .. Len(rows) |-> arr[rows[j]] ]
X_train == Take(X, train_idx)
X_test == Take(X, test_idx)
y_train == Take(y, train_idx)
y_test == Take(y, test_idx)

\* -------------------------------------------------------------------- Init
Sizes ==
    ((1 .. MaxN) \X ((0 - 1) .. MaxK))
        \cup { << N_FOLDS, d >> : d \in { e \in 2 .. N_FOLDS : N_FOLDS % e = 0 } }

Prefixes == { SubSeq(CandidateList, 1, n) : n \in 0 .. MaxCand }

\* everything no cell has assigned yet
Blank ==
    /\ err = NoError
    /\ rng = 0 /\ n_folds = 0 /\ fold = << >>
    /\ it = 0 /\ i = 0 /\ perf = << >>
    /\ train_idx = << >> /\ test_idx = << >> /\ splitLog = << >>
    /\ mdl = NoModel /\ nextId = 1 /\ r2 = << >> /\ fitLog = << >>
    /\ cv_perf = << 0, 1 >>
    /\ candidate_neighbourhoods = << >> /\ scaler = NoScaler
    /\ neighbourhood_perf = << >> /\ enumIt = 0 /\ k = 0
    /\ Z_train = [ rows |-> << >>, by |-> << >> ]
    /\ Z_test = [ rows |-> << >>, by |-> << >> ]
    /\ best_neighbourhood = 0 /\ best_k = 0 /\ best_perf = << 0, 1 >>
    /\ all_split = << >> /\ split_loss = << >> /\ best_split = 0
    /\ fold_cv = << >> /\ candFold = << >> /\ scaleLog = << >>
    /\ rsqr = << >> /\ eda_out = [ mean |-> << 0, 1 >>, std2 |-> << 0, 1 >> ]
    /\ all_k = << >> /\ acc = << >> /\ label = 0
    /\ kf = NoSplitter /\ lm = << >> /\ knn = << >> /\ zknn = << >>
    /\ libLog = << >>
    /\ cmp_out = [ lm |-> << 0, 1 >>, knn |-> << 0, 1 >>, zknn |-> << 0, 1 >> ]

\* cell 1 of cross-validation.ipynb has loaded X, y
InitCV ==
    /\ pc = "cv_seed" /\ mtrand = 0
    /\ \E sz \in Sizes, sd \in SEED .. (SEED + SeedSpan) :
          /\ cfg = [ nb |-> "cv", n_folds |-> sz[2], seed |-> sd, n_points |-> 0 ]
          /\ X = [ r \in PyRange(sz[1]) |-> 100 + r ]
          /\ y = [ r \in PyRange(sz[1]) |-> 200 + r ]
    /\ Blank

\* the cells of CART_regression.ipynb above the sweep have set n_points
InitCART ==
    /\ pc = "cr_init" /\ mtrand = 0
    /\ \E np \in 1 .. MaxPoints :
          cfg = [ nb |-> "cart", n_folds |-> 0, seed |-> SEED, n_points |-> np ]
    /\ X = << >> /\ y = << >>
    /\ Blank

\* the cells of eda_demo.ipynb above the cross validation have loaded the data
InitEDA ==
    /\ pc = "eda_cv" /\ mtrand = 0
    /\ \E nf \in (2 .. MaxK) \cup { N_FOLDS } :
          cfg = [ nb |-> "eda", n_folds |-> nf, seed |-> SEED, n_points |-> 0 ]
    /\ X = << >> /\ y = << >>
    /\ Blank

\* the cells of knn_classification.ipynb above the sweep have set n_points
InitKNN ==
    /\ pc = "kc_init" /\ mtrand = 0
    /\ \E np \in 1 .. MaxPoints :
          cfg = [ nb |-> "knn", n_folds |-> 0, seed |-> SEED, n_points |-> np ]
    /\ X = << >> /\ y = << >>
    /\ Blank

\* the cells of CART_classification.ipynb above the sweep have set n_points
InitCARTC ==
    /\ pc = "cc_init" /\ mtrand = 0
    /\ \E np \in 1 .. MaxPoints :
          cfg = [ nb |-> "cartc", n_folds |-> 0, seed |-> SEED, n_points |-> np ]
    /\ X = << >> /\ y = << >>
    /\ Blank

\* cell 1 of cross-validation.ipynb has loaded X, y, and every cell down to
\* the model comparison is going to be run; numpy's global generator was
\* seeded from the operating system when the kernel started
InitLib ==
    /\ pc = "cv_seed" /\ mtrand \in 0 .. MtSpan
    /\ \E sz \in Sizes :
          /\ cfg = [ nb |-> "lib", n_folds |-> sz[2], seed |-> SEED, n_points |-> 0 ]
          /\ X = [ r \in PyRange(sz[1]) |-> 100 + r ]
          /\ y = [ r \in PyRange(sz[1]) |-> 200 + r ]
    /\ Blank

Init == InitCV \/ InitCART \/ InitEDA \/ InitKNN \/ InitCARTC \/ InitLib

\* --------------------------------------------- by-hand cross validation cell
\* an uncaught exception ends the run
Raise(e) == pc' = "error" /\ err' = [ type |-> e, at |-> pc ]

\* rng = np.random.default_rng(1234)
CvSeed ==
    /\ pc = "cv_seed"
    /\ rng' = default_rng(cfg.seed)
    /\ pc' = "cv_build"
    /\ UNCHANGED << err, dataVars, n_folds, fold, loopVars, mdlVars, cv_perf,
                    hsVars, bestVars, sweepVars, fold_cv, edaVars, knnVars, libVars >>

\* n_folds = 10; fold = np.array([ i % n_folds for i in range(len(X)) ])
\* (the comprehension divides by zero on its first element when n_folds = 0)
Build(next) ==
    /\ n_folds' = cfg.n_folds
    /\ IF cfg.n_folds = 0
          THEN Raise("ZeroDivisionError") /\ UNCHANGED fold
          ELSE /\ fold' = NaturalFold(Cardinality(DOMAIN X), cfg.n_folds)
               /\ pc' = next /\ UNCHANGED err

CvBuild ==
    /\ pc = "cv_build"
    /\ Build("cv_shuffle")
    /\ UNCHANGED << dataVars, rng, loopVars, mdlVars, cv_perf, hsVars, bestVars,
                    sweepVars, fold_cv, edaVars, knnVars, libVars >>

\* rng.shuffle(fold)
CvShuffle ==
    /\ pc = "cv_shuffle"
    /\ LET r == Shuffle(fold, rng)
       IN  fold' = r[1] /\ rng' = r[2] /\ fold_cv' = r[1]
    /\ pc' = "cv_perf"
    /\ UNCHANGED << err, dataVars, n_folds, loopVars, mdlVars, cv_perf, hsVars,
                    bestVars, sweepVars, edaVars, knnVars, libVars >>

\* perf = []; the for statement creates its range iterator
CvPerfInit ==
    /\ pc = "cv_perf"
    /\ splitLog' = << >>
    /\ perf' = << >> /\ it' = 0
    /\ pc' = "cv_for"
    /\ UNCHANGED << err, dataVars, rngVars, i, train_idx, test_idx, mdlVars,
                    cv_perf, hsVars, bestVars, sweepVars, fold_cv, edaVars, knnVars, libVars >>

\* the loop counts its iterations and leaves i at fold 0
CvForStuck ==
    /\ pc = "cv_for"
    /\ IF it < n_folds
          THEN i' = 0 /\ it' = it + 1 /\ pc' = "cv_split"
          ELSE pc' = "cv_mean" /\ UNCHANGED << i, it >>
    /\ UNCHANGED << err, dataVars, rngVars, perf, train_idx, test_idx, splitLog, mdlVars,
                    cv_perf, hsVars, bestVars, sweepVars, fold_cv, edaVars, knnVars, libVars >>

\* for i in range(n_folds):
CvFor ==
    /\ pc = "cv_for"
    /\ IF it < n_folds
          THEN i' = it /\ it' = it + 1 /\ pc' = "cv_split"
          ELSE pc' = "cv_mean" /\ UNCHANGED << i, it >>
    /\ UNCHANGED << err, dataVars, rngVars, perf, train_idx, test_idx, splitLog, mdlVars,
                    cv_perf, hsVars, bestVars, sweepVars, fold_cv, edaVars, knnVars, libVars >>

\* X_train, X_test, y_train, y_test = X[np.where(fold != i)], X[np.where(fold == i)], ...
Split(next) ==
    /\ train_idx' = WhereNe(fold, i)
    /\ test_idx' = WhereEq(fold, i)
    /\ splitLog' = Append(splitLog, [ fold |-> i, test |-> test_idx', train |-> train_idx' ])
    /\ pc' = next

CvSplit ==
    /\ pc = "cv_split"
    /\ Split("cv_fit")
    /\ UNCHANGED << err, dataVars, rngVars, it, i, perf, mdlVars, cv_perf,
                    hsVars, bestVars, sweepVars, fold_cv, edaVars, knnVars, libVars >>

\* the oracle answers for a model key: the pair it has, or a new one
Oracle(key) ==
    IF key \in DOMAIN r2 THEN r2' = r2
    ELSE \E p \in ScorePairs : r2' = [ q \in DOMAIN r2 \cup {key} |->
                                          IF q = key THEN p ELSE r2[q] ]

\* the object bound to mdl is fitted again when it is of the wanted kind
EstimatorReused(key) ==
    IF mdl.id # 0 /\ mdl.key = key THEN mdl ELSE NewModel(nextId, key)

\* LinearRegression(), KNeighborsRegressor(n_neighbors=k): the constructor
\* call evaluates to a new, untrained object
Estimator(key) == NewModel(nextId, key)

\* the entry of the fit history: the object, its state before the fit, the
\* fold it was fitted for
FitEntry(m) == [ id |-> m.id, key |-> m.key, prior |-> m.fitted, fold |-> i ]

\* <Estimator>(...).fit(rows): the constructed object is fitted; fitting on
\* zero rows raises ValueError and nothing is assigned
FitNew(key, rows, next) ==
    IF rows = << >>
      THEN Raise("ValueError") /\ UNCHANGED mdlVars
      ELSE /\ mdl' = Fit(Estimator(key), rows)
           /\ nextId' = nextId + 1
           /\ fitLog' = Append(fitLog, FitEntry(Estimator(key)))
           /\ Oracle(key)
           /\ pc' = next /\ UNCHANGED err

\* mdl = LinearRegression().fit(X_train, y_train)
CvFit ==
    /\ pc = "cv_fit"
    /\ FitNew(LM, train_idx, "cv_score")
    /\ UNCHANGED << dataVars, rngVars, loopVars, cv_perf, hsVars, bestVars,
                    sweepVars, fold_cv, edaVars, knnVars, libVars >>

\* mdl.score(rows): predicting zero rows raises ValueError, and so does a
\* neighbourhood larger than the fitted sample
CanScore(m, rows) ==
    /\ rows # << >>
    /\ m.key = LM \/ m.key <= Len(m.fitted)

\* perf.append(mdl.score(X_test, y_test))
CvScore ==
    /\ pc = "cv_score"
    /\ IF CanScore(mdl, test_idx)
          THEN /\ perf' = Append(perf, FoldScore(r2[mdl.key], i))
               /\ pc' = "cv_for" /\ UNCHANGED err
          ELSE Raise("ValueError") /\ UNCHANGED perf
    /\ UNCHANGED << dataVars, rngVars, it, i, train_idx, test_idx, splitLog, mdlVars,
                    cv_perf, hsVars, bestVars, sweepVars, fold_cv, edaVars, knnVars, libVars >>

\* print(... np.round(np.mean(perf), 3))
\* (the cells between this one and the search cell call the library's own
\* cross validation; they bind perf, kf, lm, knn, zknn and plot_data and
\* leave X, y, rng and fold as they are: a run goes through them, or on to
\* the search cell)
CvReport ==
    /\ pc = "cv_mean"
    /\ cv_perf' = Round3(Mean(perf))
    /\ pc' = IF cfg.nb = "lib" THEN "kf_new" ELSE "hs_seed"
    /\ UNCHANGED << err, dataVars, rngVars, loopVars, mdlVars, hsVars, bestVars,
                    sweepVars, fold_cv, edaVars, knnVars, libVars >>

\* ------------------------------------------ by-hand hyperparameter search cell
\* the cell goes on with the generator the previous cell left behind
HsSeedSkipped ==
    /\ pc = "hs_seed"
    /\ pc' = "hs_cands"
    /\ UNCHANGED << err, dataVars, rngVars, loopVars, mdlVars, cv_perf,
                    hsVars, bestVars, sweepVars, fold_cv, edaVars, knnVars, libVars >>

\* rng = np.random.default_rng(1234)
HsSeed ==
    /\ pc = "hs_seed"
    /\ rng' = default_rng(cfg.seed)
    /\ pc' = "hs_cands"
    /\ UNCHANGED << err, dataVars, n_folds, fold, loopVars, mdlVars, cv_perf,
                    hsVars, bestVars, sweepVars, fold_cv, edaVars, knnVars, libVars >>

\* candidate_neighbourhoods = [ 1, 3, 5, ... ]
HsCands ==
    /\ pc = "hs_cands"
    /\ candidate_neighbourhoods' \in Prefixes
    /\ pc' = "hs_build"
    /\ UNCHANGED << err, dataVars, rngVars, loopVars, mdlVars, cv_perf, scaler,
                    neighbourhood_perf, enumIt, k, Z_train, Z_test, candFold,
                    scaleLog, bestVars, sweepVars, fold_cv, edaVars, knnVars, libVars >>

\* n_folds = 10; fold = np.array([ i % n_folds for i in range(len(X)) ])
HsBuild ==
    /\ pc = "hs_build"
    /\ Build("hs_shuffle")
    /\ UNCHANGED << dataVars, rng, loopVars, mdlVars, cv_perf, hsVars, bestVars,
                    sweepVars, fold_cv, edaVars, knnVars, libVars >>

\* rng.shuffle(fold)
HsShuffle ==
    /\ pc = "hs_shuffle"
    /\ LET r == Shuffle(fold, rng)
       IN  fold' = r[1] /\ rng' = r[2]
    /\ pc' = "hs_init"
    /\ UNCHANGED << err, dataVars, n_folds, loopVars, mdlVars, cv_perf, hsVars,
                    bestVars, sweepVars, fold_cv, edaVars, knnVars, libVars >>

\* scaler = StandardScaler(); neighbourhood_perf = []; enumerate() is created
HsInit ==
    /\ pc = "hs_init"
    /\ scaler' = NewScaler(nextId) /\ nextId' = nextId + 1
    /\ neighbourhood_perf' = << >> /\ enumIt' = 0
    /\ pc' = "hs_enum"
    /\ UNCHANGED << err, dataVars, rngVars, loopVars, mdl, r2, fitLog, cv_perf,
                    candidate_neighbourhoods, k, Z_train, Z_test, candFold,
                    scaleLog, bestVars, sweepVars, fold_cv, edaVars, knnVars, libVars >>

\* the candidate loop takes its position from the variable i, which the fold
\* loop has overwritten
HsEnumByI ==
    /\ pc = "hs_enum"
    /\ LET pos == IF enumIt = 0 THEN 0 ELSE i + 1
       IN  IF enumIt < Len(candidate_neighbourhoods) /\ pos \in PyRange(Len(candidate_neighbourhoods))
              THEN /\ i' = pos /\ k' = candidate_neighbourhoods[pos + 1]
                   /\ enumIt' = pos + 1
                   /\ candFold' = Append(candFold, [ cand |-> pos, fold |-> fold ])
                   /\ pc' = "hs_perf"
              ELSE pc' = "hs_argmax" /\ UNCHANGED << i, k, enumIt, candFold >>
    /\ UNCHANGED << err, dataVars, rngVars, it, perf, train_idx, test_idx, splitLog,
                    mdlVars, cv_perf, candidate_neighbourhoods, scaler,
                    neighbourhood_perf, Z_train, Z_test, scaleLog, bestVars,
                    sweepVars, fold_cv, edaVars, knnVars, libVars >>

\* for i, k in enumerate(candidate_neighbourhoods):
HsEnum ==
    /\ pc = "hs_enum"
    /\ IF enumIt < Len(candidate_neighbourhoods)
          THEN /\ i' = enumIt /\ k' = candidate_neighbourhoods[enumIt + 1]
               /\ enumIt' = enumIt + 1
               /\ candFold' = Append(candFold, [ cand |-> enumIt, fold |-> fold ])
               /\ pc' = "hs_perf"
          ELSE pc' = "hs_argmax" /\ UNCHANGED << i, k, enumIt, candFold >>
    /\ UNCHANGED << err, dataVars, rngVars, it, perf, train_idx, test_idx, splitLog,
                    mdlVars, cv_perf, candidate_neighbourhoods, scaler,
                    neighbourhood_perf, Z_train, Z_test, scaleLog, bestVars,
                    sweepVars, fold_cv, edaVars, knnVars, libVars >>

\* the fold array is shuffled again for every candidate
HsPerfInitReshuffle ==
    /\ pc = "hs_perf"
    /\ splitLog' = << >>
    /\ perf' = << >> /\ it' = 0
    /\ LET r == Shuffle(fold, rng)
       IN  fold' = r[1] /\ rng' = r[2]
    /\ pc' = "hs_for"
    /\ UNCHANGED << err, dataVars, n_folds, i, train_idx, test_idx, mdlVars,
                    cv_perf, hsVars, bestVars, sweepVars, fold_cv, edaVars, knnVars, libVars >>

\* the last score of the candidate before stays in perf
HsPerfInitKeepLast ==
    /\ pc = "hs_perf"
    /\ splitLog' = << >>
    /\ perf' = IF enumIt = 1 \/ perf = << >> THEN << >> ELSE << perf[Len(perf)] >>
    /\ it' = 0
    /\ pc' = "hs_for"
    /\ UNCHANGED << err, dataVars, rngVars, i, train_idx, test_idx, mdlVars,
                    cv_perf, hsVars, bestVars, sweepVars, fold_cv, edaVars, knnVars, libVars >>

\* the scores of the earlier candidates stay in perf
HsPerfInitKeep ==
    /\ pc = "hs_perf"
    /\ splitLog' = << >>
    /\ it' = 0
    /\ pc' = "hs_for"
    /\ UNCHANGED << err, dataVars, rngVars, i, perf, train_idx, test_idx, mdlVars,
                    cv_perf, hsVars, bestVars, sweepVars, fold_cv, edaVars, knnVars, libVars >>

\* perf = []; the inner for statement creates its range iterator
HsPerfInit ==
    /\ pc = "hs_perf"
    /\ splitLog' = << >>
    /\ perf' = << >> /\ it' = 0
    /\ pc' = "hs_for"
    /\ UNCHANGED << err, dataVars, rngVars, i, train_idx, test_idx, mdlVars,
                    cv_perf, hsVars, bestVars, sweepVars, fold_cv, edaVars, knnVars, libVars >>

\* the folds are taken from the last to the first
HsForDescending ==
    /\ pc = "hs_for"
    /\ IF it < n_folds
          THEN i' = n_folds - 1 - it /\ it' = it + 1 /\ pc' = "hs_split"
          ELSE pc' = "hs_mean" /\ UNCHANGED << i, it >>
    /\ UNCHANGED << err, dataVars, rngVars, perf, train_idx, test_idx, splitLog, mdlVars,
                    cv_perf, hsVars, bestVars, sweepVars, fold_cv, edaVars, knnVars, libVars >>

\* the fold loop starts at fold 1
HsForFromOne ==
    /\ pc = "hs_for"
    /\ IF it + 1 < n_folds
          THEN i' = it + 1 /\ it' = it + 1 /\ pc' = "hs_split"
          ELSE pc' = "hs_mean" /\ UNCHANGED << i, it >>
    /\ UNCHANGED << err, dataVars, rngVars, perf, train_idx, test_idx, splitLog, mdlVars,
                    cv_perf, hsVars, bestVars, sweepVars, fold_cv, edaVars, knnVars, libVars >>

\* for i in range(n_folds):
HsFor ==
    /\ pc = "hs_for"
    /\ IF it < n_folds
          THEN i' = it /\ it' = it + 1 /\ pc' = "hs_split"
          ELSE pc' = "hs_mean" /\ UNCHANGED << i, it >>
    /\ UNCHANGED << err, dataVars, rngVars, perf, train_idx, test_idx, splitLog, mdlVars,
                    cv_perf, hsVars, bestVars, sweepVars, fold_cv, edaVars, knnVars, libVars >>

\* X_train, X_test, y_train, y_test = ...
HsSplit ==
    /\ pc = "hs_split"
    /\ Split("hs_scale")
    /\ UNCHANGED << err, dataVars, rngVars, it, i, perf, mdlVars, cv_perf,
                    hsVars, bestVars, sweepVars, fold_cv, edaVars, knnVars, libVars >>

\* the entry of the scaler's fit history: the object, the rows its statistics
\* came from before the fit, the candidate position and the fold of the fit
ScaleEntry == [ id |-> scaler.id, prior |-> scaler.fitted, cand |-> enumIt - 1,
                fold |-> i ]

\* the training rows are standardised in place, in X itself
HsScaleInPlace ==
    /\ pc = "hs_scale"
    /\ train_idx # << >> /\ test_idx # << >>
    /\ scaler' = [ scaler EXCEPT !.fitted = train_idx ]
    /\ scaleLog' = Append(scaleLog, ScaleEntry)
    /\ X' = [ r \in DOMAIN X |-> IF r \in Range(train_idx) THEN 0 ELSE X[r] ]
    /\ Z_train' = [ rows |-> train_idx, by |-> train_idx ]
    /\ Z_test' = [ rows |-> test_idx, by |-> train_idx ]
    /\ pc' = "hs_fit"
    /\ UNCHANGED << err, cfg, y, rngVars, loopVars, mdlVars, cv_perf,
                    candidate_neighbourhoods, neighbourhood_perf, enumIt, k,
                    candFold, bestVars, sweepVars, fold_cv, edaVars, knnVars, libVars >>

\* the scaler is fitted on all rows, those of the test partition included
HsScaleLeak ==
    /\ pc = "hs_scale"
    /\ IF train_idx = << >>
          THEN Raise("ValueError") /\ UNCHANGED << scaler, scaleLog, Z_train, Z_test >>
          ELSE LET rows == SortedSeq(DOMAIN X)
               IN  /\ scaler' = [ scaler EXCEPT !.fitted = rows ]
                   /\ scaleLog' = Append(scaleLog, ScaleEntry)
                   /\ IF test_idx = << >>
                         THEN Raise("ValueError") /\ UNCHANGED << Z_train, Z_test >>
                         ELSE /\ Z_train' = [ rows |-> train_idx, by |-> rows ]
                              /\ Z_test' = [ rows |-> test_idx, by |-> rows ]
                              /\ pc' = "hs_fit" /\ UNCHANGED err
    /\ UNCHANGED << dataVars, rngVars, loopVars, mdlVars, cv_perf,
                    candidate_neighbourhoods, neighbourhood_perf, enumIt, k,
                    candFold, bestVars, sweepVars, fold_cv, edaVars, knnVars, libVars >>

\* a scaler that has statistics keeps them: only its first fit computes any
HsScaleStale ==
    /\ pc = "hs_scale"
    /\ IF train_idx = << >>
          THEN Raise("ValueError") /\ UNCHANGED << scaler, scaleLog, Z_train, Z_test >>
          ELSE LET rows == IF scaler.fitted = << >> THEN train_idx ELSE scaler.fitted
               IN  /\ scaler' = [ scaler EXCEPT !.fitted = rows ]
                   /\ scaleLog' = Append(scaleLog, ScaleEntry)
                   /\ IF test_idx = << >>
                         THEN Raise("ValueError") /\ UNCHANGED << Z_train, Z_test >>
                         ELSE /\ Z_train' = [ rows |-> train_idx, by |-> rows ]
                              /\ Z_test' = [ rows |-> test_idx, by |-> rows ]
                              /\ pc' = "hs_fit" /\ UNCHANGED err
    /\ UNCHANGED << dataVars, rngVars, loopVars, mdlVars, cv_perf,
                    candidate_neighbourhoods, neighbourhood_perf, enumIt, k,
                    candFold, bestVars, sweepVars, fold_cv, edaVars, knnVars, libVars >>

\* Z_train, Z_test = scaler.fit_transform(X_train), scaler.transform(X_test)
\* fit_transform on zero rows raises; otherwise it replaces the scaler's
\* statistics before transform (which raises on zero rows) is evaluated
HsScale ==
    /\ pc = "hs_scale"
    /\ IF train_idx = << >>
          THEN Raise("ValueError") /\ UNCHANGED << scaler, scaleLog, Z_train, Z_test >>
          ELSE /\ scaler' = [ scaler EXCEPT !.fitted = train_idx ]
               /\ scaleLog' = Append(scaleLog, ScaleEntry)
               /\ IF test_idx = << >>
                     THEN Raise("ValueError") /\ UNCHANGED << Z_train, Z_test >>
                     ELSE /\ Z_train' = [ rows |-> train_idx, by |-> train_idx ]
                          /\ Z_test' = [ rows |-> test_idx, by |-> train_idx ]
                          /\ pc' = "hs_fit" /\ UNCHANGED err
    /\ UNCHANGED << dataVars, rngVars, loopVars, mdlVars, cv_perf,
                    candidate_neighbourhoods, neighbourhood_perf, enumIt, k,
                    candFold, bestVars, sweepVars, fold_cv, edaVars, knnVars, libVars >>

\* mdl = KNeighborsRegressor(n_neighbors=k).fit(Z_train, y_train)
HsFit ==
    /\ pc = "hs_fit"
    /\ FitNew(k, Z_train.rows, "hs_score")
    /\ UNCHANGED << dataVars, rngVars, loopVars, cv_perf, hsVars, bestVars,
                    sweepVars, fold_cv, edaVars, knnVars, libVars >>

\* perf.append(mdl.score(Z_test, y_test))
HsScore ==
    /\ pc = "hs_score"
    /\ IF CanScore(mdl, Z_test.rows)
          THEN /\ perf' = Append(perf, FoldScore(r2[mdl.key], i))
               /\ pc' = "hs_for" /\ UNCHANGED err
          ELSE Raise("ValueError") /\ UNCHANGED perf
    /\ UNCHANGED << dataVars, rngVars, it, i, train_idx, test_idx, splitLog, mdlVars,
                    cv_perf, hsVars, bestVars, sweepVars, fold_cv, edaVars, knnVars, libVars >>

\* neighbourhood_perf.append(np.mean(perf))
HsMean ==
    /\ pc = "hs_mean"
    /\ neighbourhood_perf' = Append(neighbourhood_perf, Mean(perf))
    /\ pc' = "hs_enum"
    /\ UNCHANGED << err, dataVars, rngVars, loopVars, mdlVars, cv_perf,
                    candidate_neighbourhoods, scaler, enumIt, k, Z_train, Z_test,
                    candFold, scaleLog, bestVars, sweepVars, fold_cv, edaVars, knnVars, libVars >>

\* best_neighbourhood = np.argmax(neighbourhood_perf)
\* (np.argmax of an empty sequence raises ValueError)
HsArgmax ==
    /\ pc = "hs_argmax"
    /\ IF neighbourhood_perf = << >>
          THEN Raise("ValueError") /\ UNCHANGED best_neighbourhood
          ELSE /\ best_neighbourhood' = ArgMax(neighbourhood_perf)
               /\ pc' = "hs_best" /\ UNCHANGED err
    /\ UNCHANGED << dataVars, rngVars, loopVars, mdlVars, cv_perf, hsVars,
                    best_k, best_perf, sweepVars, fold_cv, edaVars, knnVars, libVars >>

\* best_k = candidate_neighbourhoods[best_neighbourhood]
\* best_perf = neighbourhood_perf[best_neighbourhood]; print(...)
HsBest ==
    /\ pc = "hs_best"
    /\ best_k' = candidate_neighbourhoods[best_neighbourhood + 1]
    /\ best_perf' = neighbourhood_perf[best_neighbourhood + 1]
    /\ pc' = "done"
    /\ UNCHANGED << err, dataVars, rngVars, loopVars, mdlVars, cv_perf, hsVars,
                    best_neighbourhood, sweepVars, fold_cv, edaVars, knnVars, libVars >>

\* ------------------------------------- CART_regression.ipynb: the sweep cells
\* all_split = np.arange(2, n_points + 1); split_loss = []
CrInit ==
    /\ pc = "cr_init"
    /\ all_split' = [ j \in 1 .. (cfg.n_points - 1) |-> j + 1 ]
    /\ split_loss' = << >> /\ it' = 0
    /\ pc' = "cr_for"
    /\ UNCHANGED << err, dataVars, rngVars, i, perf, train_idx, test_idx, splitLog,
                    mdlVars, cv_perf, hsVars, bestVars, best_split, fold_cv, edaVars, knnVars, libVars >>

\* for k in all_split:
CrFor ==
    /\ pc = "cr_for"
    /\ IF it < Len(all_split)
          THEN k' = all_split[it + 1] /\ it' = it + 1 /\ pc' = "cr_fit"
          ELSE pc' = "cr_argmin" /\ UNCHANGED << k, it >>
    /\ UNCHANGED << err, dataVars, rngVars, i, perf, train_idx, test_idx, splitLog,
                    mdlVars, cv_perf, candidate_neighbourhoods, scaler,
                    neighbourhood_perf, enumIt, Z_train, Z_test, candFold,
                    scaleLog, bestVars, sweepVars, fold_cv, edaVars, knnVars, libVars >>

\* mdl = DecisionTreeRegressor(random_state=0, min_samples_split=k)
\* mdl.fit(X_train, y_train)
\* split_loss.append(mean_squared_error(f(X), mdl.predict(X)))
CrFit ==
    /\ pc = "cr_fit"
    /\ mdl' = Fit(Estimator(k), SortedSeq(PyRange(cfg.n_points)))
    /\ nextId' = nextId + 1
    /\ fitLog' = Append(fitLog, FitEntry(Estimator(k)))
    /\ \E loss \in LossVals : split_loss' = Append(split_loss, loss)
    /\ pc' = "cr_for"
    /\ UNCHANGED << err, dataVars, rngVars, loopVars, r2, cv_perf, hsVars,
                    bestVars, all_split, best_split, fold_cv, edaVars, knnVars, libVars >>

\* best_split = np.argmin(split_loss)
\* (np.argmin of an empty sequence raises ValueError)
CrArgmin ==
    /\ pc = "cr_argmin"
    /\ IF split_loss = << >>
          THEN Raise("ValueError") /\ UNCHANGED best_split
          ELSE /\ best_split' = ArgMin(split_loss)
               /\ pc' = "cr_plot" /\ UNCHANGED err
    /\ UNCHANGED << dataVars, rngVars, loopVars, mdlVars, cv_perf, hsVars,
                    bestVars, all_split, split_loss, fold_cv, edaVars, knnVars, libVars >>

\* plt.scatter(all_split[best_split], split_loss[best_split],
\*             label="Lowest MSE, minsplit={}".format(all_split[best_split]))
CrPlot ==
    /\ pc = "cr_plot"
    /\ label' = all_split[best_split + 1]
    /\ pc' = "done"
    /\ UNCHANGED << err, dataVars, rngVars, loopVars, mdlVars, cv_perf, hsVars,
                    bestVars, sweepVars, fold_cv, edaVars, all_k, acc, libVars >>

\* ------------------------------- CART_classification.ipynb: the sweep cells
\* all_split = np.arange(1, n_points + 1): the sweep starts at 1
CcInitFromOne ==
    /\ pc = "cc_init"
    /\ all_split' = [ j \in 1 .. cfg.n_points |-> j ]
    /\ split_loss' = << >> /\ it' = 0
    /\ pc' = "cc_for"
    /\ UNCHANGED << err, dataVars, rngVars, i, perf, train_idx, test_idx, splitLog,
                    mdlVars, cv_perf, hsVars, bestVars, best_split, fold_cv,
                    edaVars, knnVars, libVars >>

\* all_split = np.arange(2, n_points + 1); split_loss = []
CcInit ==
    /\ pc = "cc_init"
    /\ all_split' = [ j \in 1 .. (cfg.n_points - 1) |-> j + 1 ]
    /\ split_loss' = << >> /\ it' = 0
    /\ pc' = "cc_for"
    /\ UNCHANGED << err, dataVars, rngVars, i, perf, train_idx, test_idx, splitLog,
                    mdlVars, cv_perf, hsVars, bestVars, best_split, fold_cv,
                    edaVars, knnVars, libVars >>

\* for k in all_split:
CcFor ==
    /\ pc = "cc_for"
    /\ IF it < Len(all_split)
          THEN k' = all_split[it + 1] /\ it' = it + 1 /\ pc' = "cc_fit"
          ELSE pc' = "cc_argmax" /\ UNCHANGED << k, it >>
    /\ UNCHANGED << err, dataVars, rngVars, i, perf, train_idx, test_idx, splitLog,
                    mdlVars, cv_perf, candidate_neighbourhoods, scaler,
                    neighbourhood_perf, enumIt, Z_train, Z_test, candFold,
                    scaleLog, bestVars, sweepVars, fold_cv, edaVars, knnVars,
                    libVars >>

\* mdl = DecisionTreeClassifier(random_state=0, min_samples_split=k)
\* mdl.fit(X_train, y_train)
\* split_loss.append(accuracy_score(f(X), mdl.predict(X)))
CcFit ==
    /\ pc = "cc_fit"
    /\ mdl' = Fit(Estimator(k), SortedSeq(PyRange(cfg.n_points)))
    /\ nextId' = nextId + 1
    /\ fitLog' = Append(fitLog, FitEntry(Estimator(k)))
    /\ \E a \in AccVals : split_loss' = Append(split_loss, a)
    /\ pc' = "cc_for"
    /\ UNCHANGED << err, dataVars, rngVars, loopVars, r2, cv_perf, hsVars,
                    bestVars, all_split, best_split, fold_cv, edaVars, knnVars,
                    libVars >>

\* best_split = np.argmax(split_loss)
CcArgmax ==
    /\ pc = "cc_argmax"
    /\ IF split_loss = << >>
          THEN Raise("ValueError") /\ UNCHANGED best_split
          ELSE /\ best_split' = ArgMax(split_loss)
               /\ pc' = "cc_plot" /\ UNCHANGED err
    /\ UNCHANGED << dataVars, rngVars, loopVars, mdlVars, cv_perf, hsVars,
                    bestVars, all_split, split_loss, fold_cv, edaVars, knnVars,
                    libVars >>

\* plt.scatter(all_split[best_split], split_loss[best_split],
\*             label="Best Accuracy, minsplit={}".format(all_split[best_split]))
CcPlot ==
    /\ pc = "cc_plot"
    /\ label' = all_split[best_split + 1]
    /\ pc' = "done"
    /\ UNCHANGED << err, dataVars, rngVars, loopVars, mdlVars, cv_perf, hsVars,
                    bestVars, sweepVars, fold_cv, edaVars, all_k, acc, libVars >>

\* --------------------------------- knn_classification.ipynb: the sweep cells
\* all_k = np.arange(1, n_points+1); acc = []
KcInit ==
    /\ pc = "kc_init"
    /\ all_k' = [ j \in 1 .. cfg.n_points |-> j ]
    /\ acc' = << >> /\ it' = 0
    /\ pc' = "kc_for"
    /\ UNCHANGED << err, dataVars, rngVars, i, perf, train_idx, test_idx, splitLog,
                    mdlVars, cv_perf, hsVars, bestVars, sweepVars, fold_cv,
                    edaVars, label, libVars >>

\* for k in all_k:
KcFor ==
    /\ pc = "kc_for"
    /\ IF it < Len(all_k)
          THEN k' = all_k[it + 1] /\ it' = it + 1 /\ pc' = "kc_fit"
          ELSE pc' = "kc_argmax" /\ UNCHANGED << k, it >>
    /\ UNCHANGED << err, dataVars, rngVars, i, perf, train_idx, test_idx, splitLog,
                    mdlVars, cv_perf, candidate_neighbourhoods, scaler,
                    neighbourhood_perf, enumIt, Z_train, Z_test, candFold,
                    scaleLog, bestVars, sweepVars, fold_cv, edaVars, knnVars,
                    libVars >>

\* mdl = KNeighborsClassifier(n_neighbors=k); mdl.fit(X_train, y_train)
\* acc.append(accuracy_score(y, mdl.predict(X)))
KcFit ==
    /\ pc = "kc_fit"
    /\ mdl' = Fit(Estimator(k), SortedSeq(PyRange(cfg.n_points)))
    /\ nextId' = nextId + 1
    /\ fitLog' = Append(fitLog, FitEntry(Estimator(k)))
    /\ \E a \in AccVals : acc' = Append(acc, a)
    /\ pc' = "kc_for"
    /\ UNCHANGED << err, dataVars, rngVars, loopVars, r2, cv_perf, hsVars,
                    bestVars, sweepVars, fold_cv, edaVars, all_k, label, libVars >>

\* best_k = np.argmax(acc)
KcArgmax ==
    /\ pc = "kc_argmax"
    /\ best_k' = ArgMax(acc)
    /\ pc' = "kc_plot"
    /\ UNCHANGED << err, dataVars, rngVars, loopVars, mdlVars, cv_perf, hsVars,
                    best_neighbourhood, best_perf, sweepVars, fold_cv, edaVars,
                    knnVars, libVars >>

\* the legend names the position of the best accuracy, not the candidate there
KcPlotIndex ==
    /\ pc = "kc_plot"
    /\ label' = best_k
    /\ pc' = "done"
    /\ UNCHANGED << err, dataVars, rngVars, loopVars, mdlVars, cv_perf, hsVars,
                    bestVars, sweepVars, fold_cv, edaVars, all_k, acc, libVars >>

\* plt.scatter(all_k[best_k], acc[best_k],
\*             label="Best Accuracy, k={}".format(all_k[best_k]))
KcPlot ==
    /\ pc = "kc_plot"
    /\ label' = all_k[best_k + 1]
    /\ pc' = "done"
    /\ UNCHANGED << err, dataVars, rngVars, loopVars, mdlVars, cv_perf, hsVars,
                    bestVars, sweepVars, fold_cv, edaVars, all_k, acc, libVars >>

\* ----------------------------------- eda_demo.ipynb: the cross validation cell
\* kf = KFold(n_splits=10, shuffle=True, random_state=1234)
\* rsqr = cross_val_score(LinearRegression(), X, y, cv=kf): one score per split
EdaCrossVal ==
    /\ pc = "eda_cv"
    /\ \E p \in ScorePairs :
          rsqr' = [ j \in 1 .. cfg.n_folds |-> FoldScore(p, j - 1) ]
    /\ pc' = "eda_print"
    /\ UNCHANGED << err, dataVars, rngVars, loopVars, mdlVars, cv_perf, hsVars,
                    bestVars, sweepVars, fold_cv, eda_out, knnVars, libVars >>

\* print("... R^2={}, std={}".format(np.mean(rsqr), np.std(rsqr)))
EdaPrint ==
    /\ pc = "eda_print"
    /\ eda_out' = [ mean |-> Mean(rsqr), std2 |-> StdSq(rsqr) ]
    /\ pc' = "done"
    /\ UNCHANGED << err, dataVars, rngVars, loopVars, mdlVars, cv_perf, hsVars,
                    bestVars, sweepVars, fold_cv, rsqr, knnVars, libVars >>

\* ------------------------ cross-validation.ipynb: the cells using the library
\* np.random.RandomState(seed): the state of a freshly seeded generator (the
\* same stream as default_rng gives for that seed)
RandomState(s) == s % 32

\* the oracle key of KNeighborsRegressor(n_neighbors=kk) without the scaler
\* (kk itself is the key of the standardised one)
Unscaled(kk) == 0 - kk

\* every block as long as the shortest: the surplus rows are in no block
FoldSizesFloor(n, ns) == [ f \in 1 .. ns |-> n \div ns ]

\* KFold: fold_sizes = np.full(n_splits, n // n_splits);
\* fold_sizes[: n % n_splits] += 1
FoldSizes(n, ns) ==
    [ f \in 1 .. ns |-> (n \div ns) + (IF f <= n % ns THEN 1 ELSE 0) ]

\* KFold(shuffle=True).split on n rows with the generator in state s:
\* np.arange(n) is shuffled and cut into n_splits contiguous blocks, each
\* block is the test partition of one split and the other rows are its
\* training partition (both in ascending row order).  Returns the splits
\* and the generator state.
KFoldSplit(n, ns, s) ==
    LET r == Shuffle([ j \in PyRange(n) |-> j ], s)
        sizes == FoldSizes(n, ns)
        start(f) == SumSeq(SubSeq(sizes, 1, f - 1))
        block(f) == { r[1][p] : p \in start(f) .. (start(f) + sizes[f] - 1) }
    IN  << [ f \in 1 .. ns |-> [ fold  |-> f - 1,
                                  test  |-> SortedSeq(block(f)),
                                  train |-> SortedSeq(PyRange(n) \ block(f)) ] ],
           r[2] >>

\* _RepeatedSplits.split: one KFold(shuffle=True) per repeat, all drawing
\* from the one generator
RECURSIVE RepeatedSplit(_, _, _, _)
RepeatedSplit(n, ns, reps, s) ==
    IF reps <= 0 THEN << << >>, s >>
    ELSE LET a == KFoldSplit(n, ns, s)
             rest == RepeatedSplit(n, ns, reps - 1, a[2])
         IN  << a[1] \o rest[1], rest[2] >>

\* cv.split(X): check_random_state makes a new RandomState from an integer
\* random_state, and hands out numpy's global generator for None.  Returns
\* the splits and the state the global generator is left in.
SplitterSplit(spl, n, global) ==
    IF spl.random_state = << >>
      THEN RepeatedSplit(n, spl.n_splits, spl.n_repeats, global)
      ELSE << RepeatedSplit(n, spl.n_splits, spl.n_repeats,
                            RandomState(spl.random_state[1]))[1], global >>

\* the scores of a model on its splits: one oracle value per split
Scored(p, n) == [ j \in 1 .. n |-> FoldScore(p, j - 1) ]

\* the pairs the oracle can answer with for a model key: the pair it has,
\* or any pair for a key it has not seen
OraclePairs(key) == IF key \in DOMAIN r2 THEN { r2[key] } ELSE ScorePairs

\* the splits kf hands out now
kf_split == SplitterSplit(kf, Cardinality(DOMAIN X), mtrand)

\* cross_val_score raises ValueError: the splitter unless
\* 2 <= n_splits <= len(X), the scoring of a kNN with fewer training rows
\* than neighbours
CrossValRaises(minRows) ==
    \/ kf.n_splits < 2 \/ kf.n_splits > Cardinality(DOMAIN X)
    \/ \E j \in 1 .. Len(kf_split[1]) : Len(kf_split[1][j].train) < minRows

\* cross_val_score(<estimator>, X, y, cv=kf): the splitter is asked for its
\* splits, a clone of the estimator is fitted and scored on each (p is the
\* oracle's pair for the estimator), the scores are returned as one array
CrossValScore(key, minRows, call, next, p) ==
    IF CrossValRaises(minRows)
      THEN Raise("ValueError") /\ UNCHANGED << r2, mtrand, libLog >>
      ELSE /\ mtrand' = kf_split[2]
           /\ libLog' = Append(libLog, [ call |-> call, kf |-> kf, splits |-> kf_split[1] ])
           /\ r2' = [ q \in DOMAIN r2 \cup { key } |-> IF q = key THEN p ELSE r2[q] ]
           /\ pc' = next /\ UNCHANGED err

\* the array cross_val_score returns; nothing is bound when it raises
Returned(minRows, p, old) ==
    IF CrossValRaises(minRows) THEN old ELSE Scored(p, Len(kf_split[1]))

\* a splitter that goes over the data twice
KfNewRepeated ==
    /\ pc = "kf_new"
    /\ IF cfg.n_folds < 2
          THEN Raise("ValueError") /\ UNCHANGED kf
          ELSE /\ kf' = NewSplitter(cfg.n_folds, 2, << cfg.seed >>)
               /\ pc' = "kf_cvs" /\ UNCHANGED err
    /\ UNCHANGED << dataVars, rngVars, loopVars, mdlVars, cv_perf, hsVars, bestVars,
                    sweepVars, fold_cv, edaVars, knnVars, mtrand, lm, knn, zknn,
                    libLog, cmp_out >>

\* kf = KFold(n_splits=10, shuffle=True, random_state=1234)
\* (the constructor raises ValueError for n_splits <= 1)
KfNew ==
    /\ pc = "kf_new"
    /\ IF cfg.n_folds < 2
          THEN Raise("ValueError") /\ UNCHANGED kf
          ELSE /\ kf' = NewSplitter(cfg.n_folds, 1, << cfg.seed >>)
               /\ pc' = "kf_cvs" /\ UNCHANGED err
    /\ UNCHANGED << dataVars, rngVars, loopVars, mdlVars, cv_perf, hsVars, bestVars,
                    sweepVars, fold_cv, edaVars, knnVars, mtrand, lm, knn, zknn,
                    libLog, cmp_out >>

\* perf = cross_val_score(LinearRegression(), X, y, cv=kf)
KfCrossVal ==
    /\ pc = "kf_cvs"
    /\ \E p \in OraclePairs(LM) :
          /\ CrossValScore(LM, 1, "kf", "kf_print", p)
          /\ perf' = Returned(1, p, perf)
    /\ UNCHANGED << dataVars, rngVars, it, i, train_idx, test_idx, splitLog, mdl,
                    nextId, fitLog, cv_perf, hsVars, bestVars, sweepVars, fold_cv,
                    edaVars, knnVars, kf, lm, knn, zknn, cmp_out >>

\* print(... np.round(np.mean(perf), 3))
KfReport ==
    /\ pc = "kf_print"
    /\ cv_perf' = Round3(Mean(perf))
    /\ pc' = "rkf_new"
    /\ UNCHANGED << err, dataVars, rngVars, loopVars, mdlVars, hsVars, bestVars,
                    sweepVars, fold_cv, edaVars, knnVars, libVars >>

\* kf = RepeatedKFold(n_splits=10, n_repeats=3)
\* (n_splits is looked at when the splits are asked for)
RkfNew ==
    /\ pc = "rkf_new"
    /\ kf' = NewSplitter(cfg.n_folds, N_REPEATS, << >>)
    /\ pc' = "rkf_cvs"
    /\ UNCHANGED << err, dataVars, rngVars, loopVars, mdlVars, cv_perf, hsVars,
                    bestVars, sweepVars, fold_cv, edaVars, knnVars, mtrand, lm, knn,
                    zknn, libLog, cmp_out >>

\* perf = cross_val_score(LinearRegression(), X, y, cv=kf)
RkfCrossVal ==
    /\ pc = "rkf_cvs"
    /\ \E p \in OraclePairs(LM) :
          /\ CrossValScore(LM, 1, "rkf", "rkf_print", p)
          /\ perf' = Returned(1, p, perf)
    /\ UNCHANGED << dataVars, rngVars, it, i, train_idx, test_idx, splitLog, mdl,
                    nextId, fitLog, cv_perf, hsVars, bestVars, sweepVars, fold_cv,
                    edaVars, knnVars, kf, lm, knn, zknn, cmp_out >>

\* print(... np.round(np.mean(perf), 3))
RkfReport ==
    /\ pc = "rkf_print"
    /\ cv_perf' = Round3(Mean(perf))
    /\ pc' = "cmp_new"
    /\ UNCHANGED << err, dataVars, rngVars, loopVars, mdlVars, hsVars, bestVars,
                    sweepVars, fold_cv, edaVars, knnVars, libVars >>

\* zknn_pipe = Pipeline([...]); kf = RepeatedKFold(n_splits=10, n_repeats=3)
CmpNew ==
    /\ pc = "cmp_new"
    /\ kf' = NewSplitter(cfg.n_folds, N_REPEATS, << >>)
    /\ pc' = "cmp_lm"
    /\ UNCHANGED << err, dataVars, rngVars, loopVars, mdlVars, cv_perf, hsVars,
                    bestVars, sweepVars, fold_cv, edaVars, knnVars, mtrand, lm, knn,
                    zknn, libLog, cmp_out >>

\* lm = cross_val_score(LinearRegression(), X, y, cv=kf)
CmpLm ==
    /\ pc = "cmp_lm"
    /\ \E p \in OraclePairs(LM) :
          /\ CrossValScore(LM, 1, "lm", "cmp_knn", p)
          /\ lm' = Returned(1, p, lm)
    /\ UNCHANGED << dataVars, rngVars, loopVars, mdl, nextId, fitLog, cv_perf,
                    hsVars, bestVars, sweepVars, fold_cv, edaVars, knnVars, kf, knn,
                    zknn, cmp_out >>

\* knn = cross_val_score(KNeighborsRegressor(n_neighbors=3), X, y, cv=kf)
CmpKnn ==
    /\ pc = "cmp_knn"
    /\ \E p \in OraclePairs(Unscaled(N_NEIGHBORS)) :
          /\ CrossValScore(Unscaled(N_NEIGHBORS), N_NEIGHBORS, "knn", "cmp_zknn", p)
          /\ knn' = Returned(N_NEIGHBORS, p, knn)
    /\ UNCHANGED << dataVars, rngVars, loopVars, mdl, nextId, fitLog, cv_perf,
                    hsVars, bestVars, sweepVars, fold_cv, edaVars, knnVars, kf, lm,
                    zknn, cmp_out >>

\* zknn = cross_val_score(zknn_pipe, X, y, cv=kf)
CmpZknn ==
    /\ pc = "cmp_zknn"
    /\ \E p \in OraclePairs(N_NEIGHBORS) :
          /\ CrossValScore(N_NEIGHBORS, N_NEIGHBORS, "zknn", "cmp_print", p)
          /\ zknn' = Returned(N_NEIGHBORS, p, zknn)
    /\ UNCHANGED << dataVars, rngVars, loopVars, mdl, nextId, fitLog, cv_perf,
                    hsVars, bestVars, sweepVars, fold_cv, edaVars, knnVars, kf, lm,
                    knn, cmp_out >>

\* the three print(... np.round(np.mean(<scores>), 3)) statements
CmpReport ==
    /\ pc = "cmp_print"
    /\ cmp_out' = [ lm |-> Round3(Mean(lm)), knn |-> Round3(Mean(knn)),
                    zknn |-> Round3(Mean(zknn)) ]
    /\ pc' = "done"
    /\ UNCHANGED << err, dataVars, rngVars, loopVars, mdlVars, cv_perf, hsVars,
                    bestVars, sweepVars, fold_cv, edaVars, knnVars, kf, mtrand, lm,
                    knn, zknn, libLog >>

Next ==
    \/ CvSeed \/ CvBuild \/ CvShuffle \/ CvPerfInit \/ CvFor \/ CvSplit
    \/ CvFit \/ CvScore \/ CvReport
    \/ HsSeed \/ HsCands \/ HsBuild \/ HsShuffle \/ HsInit \/ HsEnum
    \/ HsPerfInit \/ HsFor \/ HsSplit \/ HsScale \/ HsFit \/ HsScore
    \/ HsMean \/ HsArgmax \/ HsBest
    \/ CrInit \/ CrFor \/ CrFit \/ CrArgmin \/ CrPlot
    \/ CcInit \/ CcFor \/ CcFit \/ CcArgmax \/ CcPlot
    \/ KcInit \/ KcFor \/ KcFit \/ KcArgmax \/ KcPlot
    \/ EdaCrossVal \/ EdaPrint
    \/ KfNew \/ KfCrossVal \/ KfReport \/ RkfNew \/ RkfCrossVal \/ RkfReport
    \/ CmpNew \/ CmpLm \/ CmpKnn \/ CmpZknn \/ CmpReport

Spec == Init /\ [][Next]_vars

\* ------------------------- the cross validation cell with its folds in any order
\* the fold ids that have a score
Evaluated == { fitLog[a].fold : a \in 1 .. Len(fitLog) }

\* the for statement hands out the fold ids 0..n_folds-1 in an arbitrary order
CvForAny ==
    /\ pc = "cv_for"
    /\ IF it < n_folds
          THEN /\ i' \in PyRange(n_folds) \ Evaluated
               /\ it' = it + 1 /\ pc' = "cv_split"
          ELSE pc' = "cv_mean" /\ UNCHANGED << i, it >>
    /\ UNCHANGED << err, dataVars, rngVars, perf, train_idx, test_idx, splitLog, mdlVars,
                    cv_perf, hsVars, bestVars, sweepVars, fold_cv, edaVars, knnVars, libVars >>

InitAny == InitCV /\ Cardinality(DOMAIN X) <= MaxN

NextAny ==
    \/ CvSeed \/ CvBuild \/ CvShuffle \/ CvPerfInit \/ CvForAny \/ CvSplit
    \/ CvFit \/ CvScore \/ CvReport

SpecAnyOrder == InitAny /\ [][NextAny]_vars

\* --------------------------------- the by-hand cells run to their end
\* the statements of the by-hand cross validation cell and of the search cell
NextCV ==
    \/ CvSeed \/ CvBuild \/ CvShuffle \/ CvPerfInit \/ CvFor \/ CvSplit
    \/ CvFit \/ CvScore \/ CvReport
    \/ HsSeed \/ HsCands \/ HsBuild \/ HsShuffle \/ HsInit \/ HsEnum
    \/ HsPerfInit \/ HsFor \/ HsSplit \/ HsScale \/ HsFit \/ HsScore
    \/ HsMean \/ HsArgmax \/ HsBest

\* the interpreter goes on to the next statement as long as there is one
\* (the runs with the seed of the notebook on the datasets of up to MaxN rows)
InitFair == InitCV /\ cfg.seed = SEED /\ Cardinality(DOMAIN X) <= MaxN
SpecFair == InitFair /\ [][NextCV]_vars /\ WF_vars(NextCV)

\* ================================================================ properties
len_X == Cardinality(DOMAIN X)

\* the fold-building statement has run (n_folds is assigned there, and the
\* array is built there unless n_folds = 0)
FoldBuilt == n_folds > 0

\* 2 <= K <= N
ValidK == 2 <= n_folds /\ n_folds <= len_X

FoldSize(f, v) == Cardinality({ r \in DOMAIN f : f[r] = v })

\* the pcs at which the partitions of fold i have been taken
AfterSplit == { "cv_fit", "cv_score", "hs_scale", "hs_fit", "hs_score" }

\* the pcs of the search cell from the end of its shuffle on
HsShuffled == { "hs_init", "hs_enum", "hs_perf", "hs_for", "hs_split", "hs_scale",
                "hs_fit", "hs_score", "hs_mean", "hs_argmax", "hs_best", "done" }

\* C1: for 2 <= K <= N the fold array, before the shuffle and after it, has
\* exactly N labels, every label is in 0..K-1, every fold id in 0..K-1 is
\* used, and the fold sizes differ by at most 1.
C1_FoldInvariant ==
    (FoldBuilt /\ ValidK) =>
        /\ DOMAIN fold = PyRange(len_X)
        /\ \A r \in DOMAIN fold : fold[r] \in PyRange(n_folds)
        /\ LET sizes == { FoldSize(fold, v) : v \in PyRange(n_folds) }
           IN  /\ \A a \in sizes : a >= 1
               /\ \A a, b \in sizes : a - b <= 1

\* a shuffled assignment with folds of unequal size that is not the natural one
C1_Witness ==
    /\ pc = "cv_perf" /\ len_X = 4 /\ n_folds = 3
    /\ fold # NaturalFold(4, 3)

\* C2: once the partitions of fold i are taken, the test rows are exactly the
\* rows labelled i and the training rows exactly the others; the two are
\* disjoint, cover all N rows, list no row twice, and are both non-empty
\* when 2 <= K <= N.
C2_Partition ==
    pc \in AfterSplit =>
        /\ Range(test_idx) = { r \in PyRange(len_X) : fold[r] = i }
        /\ Range(train_idx) = { r \in PyRange(len_X) : fold[r] # i }
        /\ Range(test_idx) \cap Range(train_idx) = {}
        /\ Range(test_idx) \cup Range(train_idx) = PyRange(len_X)
        /\ Len(test_idx) + Len(train_idx) = len_X
        /\ ValidK => (test_idx # << >> /\ train_idx # << >>)

\* the second fold of the search cell, two test rows against two training rows
C2_Witness ==
    /\ pc = "hs_fit" /\ i = 1 /\ len_X = 4
    /\ Len(test_idx) = 2 /\ Len(train_idx) = 2

\* the search cell has run to its end
HsDone == cfg.nb = "cv" /\ pc = "done"

\* the sweep of CART_regression.ipynb has run to its end
CrDone == cfg.nb = "cart" /\ pc = "done"

\* C3: the search evaluates each candidate once, in list order, and the fold
\* array at the start of every candidate's evaluation is the one built before
\* the first candidate.
C3_OneFoldAssignment ==
    /\ \A j \in 1 .. Len(candFold) :
          /\ candFold[j].cand = j - 1
          /\ candFold[j].fold = candFold[1].fold
          /\ candFold[j].fold = fold
    /\ (cfg.nb = "cv" /\ pc \in { "hs_argmax", "hs_best", "done" }) =>
          /\ Len(candFold) = Len(candidate_neighbourhoods)
          /\ Len(neighbourhood_perf) = Len(candidate_neighbourhoods)

\* three candidates evaluated on a shuffled assignment
C3_Witness ==
    /\ HsDone /\ Len(candFold) = 3
    /\ fold # NaturalFold(len_X, n_folds)

\* the per-fold scores of the worked example: candidate 1 scores 0.70, 0.75,
\* candidate 3 scores 0.80, 0.85, candidate 5 scores 0.80, 0.80
Scenario135 ==
    /\ candidate_neighbourhoods = << 1, 3, 5 >> /\ n_folds = 2
    /\ r2[1] = << 70, 75 >> /\ r2[3] = << 80, 85 >> /\ r2[5] = << 80, 80 >>

C5_TieBreak ==
    HsDone =>
        \A j \in 1 .. Len(neighbourhood_perf) :
            ~FracLess(neighbourhood_perf[j], neighbourhood_perf[best_neighbourhood + 1])
                => best_neighbourhood + 1 <= j

\* a later candidate with other per-fold scores ties with the reported one
C5_Witness ==
    /\ HsDone
    /\ \E j \in 1 .. Len(neighbourhood_perf) :
          /\ j > best_neighbourhood + 1
          /\ FracEq(neighbourhood_perf[j], best_perf)
          /\ r2[candidate_neighbourhoods[j]] # r2[best_k]

InEvaluator ==
    pc \in { "cv_perf", "cv_for", "cv_split", "cv_fit", "cv_score", "cv_mean" }
            \cup (HsShuffled \ { "done" })

\* C7: no step changes the dataset, and no step of the evaluator or of the
\* search around it changes the fold assignment.
C7_Frame ==
    [][ /\ X' = X /\ y' = y
        /\ InEvaluator => (fold' = fold /\ n_folds' = n_folds) ]_vars

\* a search over several candidates and folds has run to its end
C7_Witness == HsDone /\ Len(neighbourhood_perf) >= 2 /\ n_folds >= 2

\* C8: the search cell, with the seed, fold count and dataset of the cross
\* validation cell, builds the fold array that cell built.
C8_SameFold == (cfg.nb = "cv" /\ pc \in HsShuffled) => fold = fold_cv

\* both cells have shuffled, and the shuffle moved labels
C8_Witness ==
    /\ pc = "hs_init" /\ ValidK
    /\ fold_cv # NaturalFold(len_X, n_folds)

C10_ConfigurationError ==
    (/\ cfg.nb = "cv" /\ pc \notin { "cv_seed", "cv_build" }
     /\ (cfg.n_folds < 2 \/ cfg.n_folds > len_X)) =>
        /\ err.type = "ConfigurationError"
        /\ fold = << >>
        /\ fitLog = << >>

\* the statements that fit, standardise or score on the partitions of fold i
OnPartitions == { "cv_fit", "cv_score", "hs_scale", "hs_fit", "hs_score" }

\* the object mdl is bound to was fitted for fold i on the current training rows
FittedForFold ==
    /\ fitLog # << >> /\ fitLog[Len(fitLog)].fold = i
    /\ mdl.id = fitLog[Len(fitLog)].id /\ mdl.fitted = train_idx

\* C11: a run that fails on a fold whose test or training partition is empty
\* fails with EmptyPartitionError, and has neither fitted the predictor nor
\* the scaler on that fold.
C11_EmptyPartitionError ==
    (/\ pc = "error" /\ err.at \in OnPartitions
     /\ (test_idx = << >> \/ train_idx = << >>)) =>
        /\ err.type = "EmptyPartitionError"
        /\ ~FittedForFold
        /\ scaler.fitted = << >> \/ scaler.fitted # train_idx

\* the statements of the search cell
HsPcs == { "hs_seed", "hs_cands", "hs_build", "hs_shuffle", "hs_init", "hs_enum",
           "hs_perf", "hs_for", "hs_split", "hs_scale", "hs_fit", "hs_score",
           "hs_mean", "hs_argmax", "hs_best" }

\* C12: with 2 <= K <= N and an empty candidate list the search cell fails
\* with EmptyCandidateListError, having fitted no scaler and no predictor and
\* reporting no candidate.
C12_EmptyCandidateList ==
    (/\ cfg.nb = "cv" /\ ValidK /\ candidate_neighbourhoods = << >>
     /\ pc \in { "hs_best", "done", "error" }) =>
        /\ pc = "error" /\ err.at \in HsPcs
        /\ err.type = "EmptyCandidateListError"
        /\ scaleLog = << >>
        /\ \A a \in 1 .. Len(fitLog) : fitLog[a].key = LM
        /\ best_k = 0

\* C13: with K = N >= 2 every test partition is one row and every training
\* partition the other N - 1 rows, the cross validation cell scores all N
\* folds, and the search cell fails only on an empty candidate list or on a
\* neighbourhood larger than the N - 1 training rows, never on an empty
\* partition.
C13_LeaveOneOut ==
    (cfg.nb = "cv" /\ cfg.n_folds = len_X /\ len_X >= 2) =>
        /\ pc \in AfterSplit =>
              /\ Len(test_idx) = 1 /\ fold[test_idx[1]] = i
              /\ Len(train_idx) = len_X - 1
              /\ test_idx[1] \notin Range(train_idx)
        /\ pc \in { "cv_mean", "hs_mean" } => (Len(perf) = len_X /\ i = len_X - 1)
        /\ pc = "error" =>
              \/ err.at = "hs_argmax" /\ candidate_neighbourhoods = << >>
              \/ /\ err.at = "hs_score" /\ mdl.key > len_X - 1
                 /\ test_idx # << >> /\ train_idx # << >>

\* leave-one-out over the 10-row dataset has scored its last fold
C13_Witness == pc = "cv_mean" /\ len_X = N_FOLDS /\ cfg.n_folds = N_FOLDS

\* K < 2 or K > N
InvalidK == cfg.n_folds < 2 \/ cfg.n_folds > len_X

\* the pcs at which the mean of the cross validation cell has been printed
CvReported == HsPcs \cup { "done" }

\* C14: a run with K < 2 or K > N prints no mean score and reports no
\* candidate, and neither does the search cell of a run with an empty
\* candidate list.
C14_HaltOnConfigurationError ==
    cfg.nb = "cv" =>
        /\ InvalidK => pc \notin CvReported
        /\ (pc = "done" \/ pc = "hs_best") => candidate_neighbourhoods # << >>

\* C15: with 2 <= K <= N, when fit or score raises, the exception names the
\* fold and the candidate it was raised for, and no candidate is reported.
C15_LabelledFailure ==
    (/\ cfg.nb = "cv" /\ ValidK /\ pc = "error"
     /\ err.at \in { "cv_fit", "cv_score", "hs_fit", "hs_score" }) =>
        /\ { "fold", "candidate" } \subseteq DOMAIN err
        /\ err.fold = i /\ err.candidate = k
        /\ best_k = 0

Abs(n) == IF n < 0 THEN 0 - n ELSE n

\* the sum of the scores of the folds 0..nf-1 for a model with oracle pair p:
\* the even fold ids score p[1], the odd ones p[2]
PairSum(p, nf) == p[1] * ((nf + 1) \div 2) + p[2] * (nf \div 2)

\* the fit of the predictor that scored fold f of the evaluation just finished
FitOfFold(f) == fitLog[Len(fitLog) - n_folds + f + 1]

C17_Fairness ==
    cfg.nb = "cv" =>
        \A a, b \in 1 .. Len(neighbourhood_perf) :
            (/\ candidate_neighbourhoods[a] \in DOMAIN r2
             /\ candidate_neighbourhoods[b] \in DOMAIN r2
             /\ r2[candidate_neighbourhoods[a]] = r2[candidate_neighbourhoods[b]]) =>
                /\ neighbourhood_perf[a] = neighbourhood_perf[b]
                /\ ~IsNaN(neighbourhood_perf[a])

\* the first and the third candidate score alike, the second between them
\* does not
C17_Witness ==
    /\ HsDone /\ Len(neighbourhood_perf) = 3 /\ { 1, 3, 5 } \subseteq DOMAIN r2
    /\ r2[1] = r2[5] /\ r2[3] # r2[1]
    /\ FracLess(neighbourhood_perf[1], neighbourhood_perf[2])

\* C18: the search ends with one table entry per candidate, in list order,
\* entry j the mean of the K fold scores of candidate j; the reported
\* candidate and score are one row of that table; and the candidate loop
\* goes through the list although the fold loop has overwritten i.
C18_SearchOutput ==
    /\ (cfg.nb = "cv" /\ pc = "hs_mean" /\ n_folds >= 1) =>
          /\ i = n_folds - 1
          /\ enumIt = Len(neighbourhood_perf) + 1
          /\ k = candidate_neighbourhoods[enumIt]
    /\ (HsDone /\ n_folds >= 1) =>
          /\ Len(neighbourhood_perf) = Len(candidate_neighbourhoods)
          /\ \A j \in 1 .. Len(candidate_neighbourhoods) :
                neighbourhood_perf[j] =
                    << PairSum(r2[candidate_neighbourhoods[j]], n_folds), n_folds >>
          /\ \E j \in 1 .. Len(candidate_neighbourhoods) :
                /\ best_neighbourhood = j - 1
                /\ best_k = candidate_neighbourhoods[j]
                /\ best_perf = neighbourhood_perf[j]

\* the last of three candidates is reported after two folds each: the fold
\* loop left i = 1, the reported position is 2
C18_Witness ==
    /\ HsDone /\ Len(candidate_neighbourhoods) = 3
    /\ i = 1 /\ best_neighbourhood = 2

\* the scores of the folds 0..K-1 in fold order
SeqPerf == [ j \in 1 .. n_folds |-> FoldScore(r2[LM], j - 1) ]

LmFits == Cardinality({ a \in 1 .. Len(fitLog) : fitLog[a].key = LM })

\* the statements of the candidate loop of the search cell
HsLoop == { "hs_enum", "hs_perf", "hs_for", "hs_split", "hs_scale", "hs_fit",
            "hs_score", "hs_mean" }

\* C23: the search fits its scaler and its predictors candidate by candidate
\* in list order and, within a candidate, fold by fold in the order 0..K-1;
\* a candidate starts only when the mean of the one before is recorded, and
\* a candidate is selected only when the mean of the last one is.
C23_SequentialOrder ==
    cfg.nb = "cv" =>
        /\ \A a \in 1 .. Len(scaleLog) :
              /\ scaleLog[a].cand = (a - 1) \div n_folds
              /\ scaleLog[a].fold = (a - 1) % n_folds
        /\ \A a \in (LmFits + 1) .. Len(fitLog) :
              /\ fitLog[a].fold = (a - LmFits - 1) % n_folds
              /\ fitLog[a].key =
                    candidate_neighbourhoods[((a - LmFits - 1) \div n_folds) + 1]
        /\ pc \in (HsLoop \ { "hs_enum" }) =>
              (Len(neighbourhood_perf) = enumIt - 1 /\ best_k = 0)
        /\ pc = "hs_enum" => (Len(neighbourhood_perf) = enumIt /\ best_k = 0)
        /\ pc \in { "hs_argmax", "hs_best", "done" } =>
              /\ Len(neighbourhood_perf) = Len(candidate_neighbourhoods)
              /\ n_folds >= 1 =>
                    Len(scaleLog) = Len(candidate_neighbourhoods) * n_folds

\* the first fold of the second candidate starts after the K folds of the first
C23_Witness ==
    /\ pc = "hs_scale" /\ enumIt = 2 /\ i = 0
    /\ n_folds >= 2 /\ Len(scaleLog) = n_folds

\* a run has ended: its last cell has finished or an exception has stopped it
Terminated == pc \in { "done", "error" }

\* the fits of a run with 2 <= K <= N: K when the cross validation loop has
\* ended, K + |C| * K when the search has
FitCount ==
    (cfg.nb = "cv" /\ ValidK) =>
        /\ pc = "cv_mean" => (Len(fitLog) = n_folds /\ Len(perf) = n_folds)
        /\ pc \in { "hs_argmax", "hs_best", "done" } =>
              /\ LmFits = n_folds
              /\ Len(fitLog) - LmFits = Len(candidate_neighbourhoods) * n_folds
              /\ Len(scaleLog) = Len(candidate_neighbourhoods) * n_folds

\* C24: every run ends, and with 2 <= K <= N the search cell ends after
\* exactly |C| * K fits (each of them scored), the cross validation loop
\* after exactly K.
C24_Termination == []FitCount /\ <>Terminated

\* the search over two candidates and at least three folds has ended
C24_Witness ==
    /\ HsDone /\ ValidK /\ Len(candidate_neighbourhoods) = 2 /\ n_folds >= 3
    /\ Len(fitLog) - LmFits = 2 * n_folds

\* C26: when the predictor of a fold is fitted and scored, the scaler holds
\* the statistics of exactly the training rows of that fold, they are what
\* standardised both partitions, and no test row is among them; the scaler
\* is the object made before the loops, refitted last for this candidate
\* and fold.
C26_ScalerRefit ==
    (cfg.nb = "cv" /\ pc \in { "hs_fit", "hs_score" }) =>
        /\ Range(scaler.fitted) = { r \in PyRange(len_X) : fold[r] # i }
        /\ Range(scaler.fitted) \cap Range(test_idx) = {}
        /\ Z_test.rows = test_idx /\ Z_test.by = scaler.fitted
        /\ Z_train.rows = train_idx /\ Z_train.by = scaler.fitted
        /\ LET last == scaleLog[Len(scaleLog)]
           IN  /\ last.id = scaler.id
               /\ last.fold = i /\ candidate_neighbourhoods[last.cand + 1] = k

\* the first fold of the second candidate: the scaler came with the
\* statistics of the last fold of the first candidate
C26_Witness ==
    /\ pc = "hs_fit" /\ enumIt = 2 /\ i = 0 /\ n_folds >= 2
    /\ scaleLog[Len(scaleLog)].prior = WhereNe(fold, n_folds - 1)
    /\ scaler.fitted = WhereNe(fold, 0)

\* C27: perf is empty when the fold loop of a candidate starts, holds only
\* scores of that candidate while it runs, and the mean recorded for the
\* candidate is the sum of its K fold scores over K.
C27_PerfReset ==
    cfg.nb = "cv" =>
        /\ (pc = "hs_for" /\ it = 0) => perf = << >>
        /\ pc \in { "hs_for", "hs_split", "hs_scale", "hs_fit", "hs_score", "hs_mean" } =>
              /\ Len(perf) <= n_folds \/ perf = << >>
              /\ \A f \in 1 .. Len(perf) : perf[f] = FoldScore(r2[k], f - 1)
        /\ (pc = "hs_enum" /\ n_folds >= 1) =>
              \A j \in 1 .. Len(neighbourhood_perf) :
                  /\ neighbourhood_perf[j][2] = n_folds
                  /\ neighbourhood_perf[j][1] =
                        SumSeq([ f \in 1 .. n_folds |->
                                   FoldScore(r2[candidate_neighbourhoods[j]], f - 1) ])

\* the second candidate scores differently from the first, and both means
\* are recorded
C27_Witness ==
    /\ pc = "hs_enum" /\ Len(neighbourhood_perf) = 2 /\ ValidK
    /\ r2[candidate_neighbourhoods[1]] # r2[candidate_neighbourhoods[2]]

\* C25: with 2 <= K <= N, when a fold loop has ended it has taken K
\* partitions; every row was in the test partition of exactly one of them
\* and in the training partition of exactly the K - 1 others, and the sizes
\* of the test partitions add up to N.
C25_TestedOnce ==
    (cfg.nb = "cv" /\ pc \in { "cv_mean", "hs_mean" } /\ ValidK) =>
        /\ Len(splitLog) = n_folds
        /\ \A r \in PyRange(len_X) :
              /\ Cardinality({ a \in 1 .. Len(splitLog) : r \in Range(splitLog[a].test) }) = 1
              /\ Cardinality({ a \in 1 .. Len(splitLog) : r \in Range(splitLog[a].train) })
                    = n_folds - 1
        /\ SumSeq([ a \in 1 .. Len(splitLog) |-> Len(splitLog[a].test) ]) = len_X

\* four rows in three folds of unequal size, shuffled, all three evaluated
C25_Witness ==
    /\ pc = "cv_mean" /\ len_X = 4 /\ n_folds = 3
    /\ fold # NaturalFold(4, 3) /\ Len(splitLog) = 3

\* the sweeps of knn_classification.ipynb and CART_classification.ipynb have
\* run to their end
KcDone == cfg.nb = "knn" /\ pc = "done"
CcDone == cfg.nb = "cartc" /\ pc = "done"

\* C29: when a sweep has ended, the variable set by argmax/argmin is a
\* position of the candidate array, the legend names the candidate at that
\* position (position + 1 in the kNN sweep, position + 2 in the CART sweep),
\* a member of the candidate array, and no candidate has a better score.
C29_SweepIndex ==
    /\ KcDone =>
          /\ Len(acc) = Len(all_k) /\ Len(all_k) = cfg.n_points
          /\ best_k \in PyRange(Len(all_k))
          /\ label = best_k + 1 /\ label \in Range(all_k)
          /\ \A j \in 1 .. Len(acc) : ~FracLess(acc[label], acc[j])
    /\ CrDone =>
          /\ Len(split_loss) = Len(all_split) /\ Len(all_split) = cfg.n_points - 1
          /\ best_split \in PyRange(Len(all_split))
          /\ label = best_split + 2 /\ label \in Range(all_split)
          /\ \A j \in 1 .. Len(split_loss) : split_loss[label - 1] <= split_loss[j]

\* the best accuracy of the kNN sweep is that of the third candidate, k = 3,
\* found at position 2
C29_Witness == KcDone /\ best_k = 2 /\ label = 3 /\ Len(all_k) >= 4

RepeatOf(e, rr) == SubSeq(e.splits, rr * e.kf.n_splits + 1, (rr + 1) * e.kf.n_splits)

\* the splits of a list that have the row in their test partition
TestedIn(sp, row) == { j \in 1 .. Len(sp) : row \in Range(sp[j].test) }

\* the test partitions of a list of splits, as a set of sets of rows
TestSets(sp) == { Range(sp[j].test) : j \in 1 .. Len(sp) }

\* the fold invariant on the K splits of one fold assignment
FoldAssignment(sp, K) ==
    /\ Len(sp) = K
    /\ \A j \in 1 .. K :
          /\ sp[j].test # << >>
          /\ Range(sp[j].train) = DOMAIN X \ Range(sp[j].test)
    /\ \A a, b \in 1 .. K : Len(sp[a].test) - Len(sp[b].test) <= 1
    /\ \A row \in DOMAIN X : Cardinality(TestedIn(sp, row)) = 1

\* C21: every cross_val_score call on a RepeatedKFold with R repeats went
\* over R * K splits; the K splits of each repeat are a fold assignment
\* (every fold non-empty, sizes at most 1 apart, every row in the test
\* partition of exactly one fold), so every row was test data R times.
C21_RepeatedFolds ==
    \A c \in 1 .. Len(libLog) :
        LET e == libLog[c]
        IN  /\ e.call # "kf" => e.kf.n_repeats = N_REPEATS
            /\ Len(e.splits) = e.kf.n_repeats * e.kf.n_splits
            /\ \A rr \in PyRange(e.kf.n_repeats) :
                  FoldAssignment(RepeatOf(e, rr), e.kf.n_splits)
            /\ \A row \in DOMAIN X :
                  Cardinality(TestedIn(e.splits, row)) = e.kf.n_repeats

\* the repeated cross validation has run on folds of unequal size, and its
\* second repeat partitions the rows differently from the first
C21_Witness ==
    /\ cfg.nb = "lib" /\ pc = "rkf_print" /\ len_X % n_folds # 0
    /\ libLog[2].call = "rkf" /\ Len(libLog[2].splits) = N_REPEATS * n_folds
    /\ TestSets(RepeatOf(libLog[2], 0)) # TestSets(RepeatOf(libLog[2], 1))

\* the by-hand cell and the KFold cell have both evaluated, the by-hand
\* mean is printed and the library's scores are returned
LibCompared == cfg.nb = "lib" /\ pc = "kf_print"

\* C22: the by-hand cell and the KFold cell evaluate the same train/test
\* partitions and report the same mean.
C22_Equivalent ==
    LibCompared =>
        /\ TestSets(splitLog) = TestSets(libLog[1].splits)
        /\ cv_perf = Round3(Mean(perf))

\* C22 as amended: both cells evaluate K splits that are a fold assignment
\* of the rows, fold by fold of the same size, and both have one score per
\* split to average.
C22_SameProcedure ==
    LibCompared =>
        /\ FoldAssignment(splitLog, n_folds)
        /\ FoldAssignment(libLog[1].splits, n_folds)
        /\ \A j \in 1 .. n_folds :
              /\ splitLog[j].fold = libLog[1].splits[j].fold
              /\ Len(splitLog[j].test) = Len(libLog[1].splits[j].test)
        /\ Len(perf) = n_folds /\ ~IsNaN(cv_perf)

\* both cells have run on folds of several rows, and a row is tested
\* together with other rows by hand than in the library
C22_Witness ==
    /\ LibCompared /\ n_folds < len_X
    /\ TestSets(splitLog) # TestSets(libLog[1].splits)

\* the model comparison cell has made its three cross_val_score calls
Compared == cfg.nb = "lib" /\ pc \in { "cmp_print", "done" }

\* C28: the three cross_val_score calls of the model comparison evaluate
\* their models on the same partitions, repeat by repeat.
C28_SharedAssignments ==
    Compared =>
        \A rr \in PyRange(N_REPEATS) :
            /\ TestSets(RepeatOf(libLog[3], rr)) = TestSets(RepeatOf(libLog[4], rr))
            /\ TestSets(RepeatOf(libLog[4], rr)) = TestSets(RepeatOf(libLog[5], rr))

====
